---- MODULE Spec2Model ----
(***************************************************************************)
(* Model of sentinel-code: URL validation and checkout naming              *)
(* (github_utils.py), smart sampling (github_utils.py), report assembly    *)
(* (analyzer.py) and the analyze_repo request handler (server.py).         *)
(*                                                                         *)
(* A Python str is a sequence of one-character strings, so that substring  *)
(* tests, lower(), rstrip(), replace() and split() are computed, character *)
(* by character, the way the code computes them.                           *)
(***************************************************************************)
EXTENDS Integers, Sequences, FiniteSets, TLC

(***************************************************************************)
(* Python str primitives                                                   *)
(***************************************************************************)
UpperAlpha == <<"A","B","C","D","E","F","G","H","I","J","K","L","M","N","O","P","Q","R","S","T","U","V","W","X","Y","Z">>
LowerAlpha == <<"a","b","c","d","e","f","g","h","i","j","k","l","m","n","o","p","q","r","s","t","u","v","w","x","y","z">>
Digits == <<"0","1","2","3","4","5","6","7","8","9">>

Range(s) == {s[i] : i \in 1..Len(s)}

Min(a, b) == IF a < b THEN a ELSE b

\* str.lower(), one character
LowerOf == [c \in Range(UpperAlpha) |-> LowerAlpha[CHOOSE i \in 1..26 : UpperAlpha[i] = c]]

LowerChar(c) == IF c \in DOMAIN LowerOf THEN LowerOf[c] ELSE c

\* str.lower()
Lower(s) == [i \in 1..Len(s) |-> LowerChar(s[i])]

\* s[i:].startswith(lit), i counted from 1
HasAt(s, i, lit) ==
    /\ i >= 1
    /\ i + Len(lit) - 1 <= Len(s)
    /\ \A k \in 1..Len(lit) : s[i + k - 1] = lit[k]

\* sub in s
Contains(s, sub) == \E i \in 1..(Len(s) - Len(sub) + 1) : SubSeq(s, i, i + Len(sub) - 1) = sub

\* s.count(c) for a one-character c
CountChar(s, c) == Cardinality({i \in 1..Len(s) : s[i] = c})

\* s.rfind(c) for a one-character c, counted from 1; 0 when absent
RFind(s, c) ==
    IF \E i \in 1..Len(s) : s[i] = c
    THEN CHOOSE i \in 1..Len(s) : s[i] = c /\ \A j \in (i+1)..Len(s) : s[j] # c
    ELSE 0

\* s.rstrip(c) for a one-character c
RECURSIVE RStrip(_, _)
RStrip(s, c) ==
    IF Len(s) > 0 /\ s[Len(s)] = c THEN RStrip(SubSeq(s, 1, Len(s) - 1), c) ELSE s

\* s.replace(old, ''): leftmost, non-overlapping occurrences removed
RECURSIVE RemoveAll(_, _)
RemoveAll(s, old) ==
    IF Len(s) = 0 THEN s
    ELSE IF HasAt(s, 1, old) THEN RemoveAll(SubSeq(s, Len(old) + 1, Len(s)), old)
    ELSE <<s[1]>> \o RemoveAll(Tail(s), old)

\* s.split(c) for a one-character c
RECURSIVE Split(_, _)
Split(s, c) ==
    IF \E i \in 1..Len(s) : s[i] = c
    THEN LET i == CHOOSE k \in 1..Len(s) : s[k] = c /\ \A j \in 1..(k-1) : s[j] # c
         IN  <<SubSeq(s, 1, i - 1)>> \o Split(SubSeq(s, i + 1, Len(s)), c)
    ELSE <<s>>

\* sep.join(parts)
RECURSIVE Join(_, _)
Join(parts, sep) ==
    IF Len(parts) = 0 THEN <<>>
    ELSE IF Len(parts) = 1 THEN parts[1]
    ELSE parts[1] \o sep \o Join(Tail(parts), sep)

Reverse(s) == [i \in 1..Len(s) |-> s[Len(s) + 1 - i]]

(***************************************************************************)
(* GitHubUtils class constants                                             *)
(***************************************************************************)
EXTENSIONS == <<
    <<".","p","y">>, <<".","j","s">>, <<".","t","s">>, <<".","j","s","x">>, <<".","t","s","x">>,
    <<".","r","s">>, <<".","s","o","l">>, <<".","g","o">>, <<".","j","a","v","a">>,
    <<".","c","p","p">>, <<".","c">>, <<".","h">>, <<".","h","p","p">>,
    <<".","r","b">>, <<".","p","h","p">>, <<".","s","w","i","f","t">>, <<".","k","t">> >>

IGNORE_DIRS == <<
    <<"n","o","d","e","_","m","o","d","u","l","e","s">>, <<"v","e","n","v">>, <<".","v","e","n","v">>, <<"_","_","p","y","c","a","c","h","e","_","_">>, <<".","g","i","t">>,
    <<"d","i","s","t">>, <<"b","u","i","l","d">>, <<"t","a","r","g","e","t">>, <<".","n","e","x","t">>, <<"v","e","n","d","o","r">>, <<".","c","a","c","h","e">>,
    <<"c","o","v","e","r","a","g","e">>, <<".","n","y","c","_","o","u","t","p","u","t">>, <<"e","g","g","s">>, <<".","e","g","g","s">>, <<"*",".","e","g","g","-","i","n","f","o">> >>

SKIP_PATTERNS == <<
    <<"t","e","s","t","_">>, <<"_","t","e","s","t",".">>, <<".","t","e","s","t",".">>, <<"s","p","e","c","_">>, <<"_","s","p","e","c",".">>, <<".","s","p","e","c",".">>,
    <<"m","o","c","k","_">>, <<"_","m","o","c","k",".">>, <<".","m","o","c","k",".">>, <<"f","i","x","t","u","r","e">>, <<"_","_","m","o","c","k","s","_","_">>,
    <<"m","i","g","r","a","t","i","o","n","s">>, <<".","m","i","n",".">>, <<".","b","u","n","d","l","e",".">>, <<".","c","o","m","p","i","l","e","d",".">> >>

CRITICAL_KEYWORDS == <<
    <<"a","u","t","h">>, <<"l","o","g","i","n">>, <<"l","o","g","o","u","t">>, <<"p","a","s","s","w","o","r","d">>, <<"c","r","e","d","e","n","t","i","a","l">>, <<"s","e","c","r","e","t">>,
    <<"t","o","k","e","n">>, <<"s","e","s","s","i","o","n">>, <<"j","w","t">>, <<"o","a","u","t","h">>, <<"p","e","r","m","i","s","s","i","o","n">>, <<"r","o","l","e">>,
    <<"p","a","y","m","e","n","t">>, <<"c","h","e","c","k","o","u","t">>, <<"b","i","l","l","i","n","g">>, <<"s","t","r","i","p","e">>, <<"p","a","y","p","a","l">>,
    <<"a","d","m","i","n">>, <<"u","s","e","r">>, <<"a","c","c","o","u","n","t">>, <<"p","r","o","f","i","l","e">>, <<"r","e","g","i","s","t","e","r">>, <<"s","i","g","n","u","p">>,
    <<"a","p","i","_","k","e","y">>, <<"p","r","i","v","a","t","e","_","k","e","y">>, <<"e","n","c","r","y","p","t">>, <<"d","e","c","r","y","p","t">>, <<"h","a","s","h">> >>

IMPORTANT_KEYWORDS == <<
    <<"m","a","i","n">>, <<"a","p","p">>, <<"i","n","d","e","x">>, <<"s","e","r","v","e","r">>, <<"i","n","i","t">>, <<"s","e","t","u","p">>, <<"c","o","n","f","i","g">>,
    <<"s","e","t","t","i","n","g","s">>, <<"d","a","t","a","b","a","s","e">>, <<"d","b">>, <<"m","o","d","e","l">>, <<"s","c","h","e","m","a">>, <<"m","i","g","r","a","t","e">>,
    <<"a","p","i">>, <<"r","o","u","t","e">>, <<"r","o","u","t","e","r">>, <<"c","o","n","t","r","o","l","l","e","r">>, <<"h","a","n","d","l","e","r">>, <<"v","i","e","w">>,
    <<"m","i","d","d","l","e","w","a","r","e">>, <<"s","e","r","v","i","c","e">>, <<"c","l","i","e","n","t">>, <<"u","t","i","l">>, <<"h","e","l","p","e","r">>, <<"c","o","r","e">> >>

PRIORITY_DIRS == <<
    <<"s","r","c","/">>, <<"l","i","b","/">>, <<"c","o","r","e","/">>, <<"a","p","i","/">>, <<"r","o","u","t","e","s","/">>, <<"c","o","n","t","r","o","l","l","e","r","s","/">>,
    <<"s","e","r","v","i","c","e","s","/">>, <<"m","o","d","e","l","s","/">>, <<"h","a","n","d","l","e","r","s","/">>, <<"m","i","d","d","l","e","w","a","r","e","/">>, <<"a","u","t","h","/">>,
    <<"a","p","p","/">>, <<"s","e","r","v","e","r","/">>, <<"b","a","c","k","e","n","d","/">>, <<"p","k","g","/">>, <<"i","n","t","e","r","n","a","l","/">> >>

(***************************************************************************)
(* is_valid_github_url: re.match(r'^https?://github\.com/[\w\-\.]+/        *)
(* [\w\-\.]+/?$', url).  Every class of the pattern excludes '/', so the   *)
(* greedy match is the only match and the matcher below walks the url      *)
(* once.  '$' matches at the end and before a final newline.               *)
(***************************************************************************)
\* \w of the re module, on the characters the model uses
WordChars == Range(UpperAlpha) \cup Range(LowerAlpha) \cup Range(Digits) \cup {"_"}

IsWordChar(c) == c \in WordChars

\* the class [\w\-\.]
IsNameChar(c) == IsWordChar(c) \/ c = "-" \/ c = "."

\* first position >= i of s that holds no [\w\-\.] character
RECURSIVE SkipName(_, _)
SkipName(s, i) == IF i <= Len(s) /\ IsNameChar(s[i]) THEN SkipName(s, i + 1) ELSE i

AtDollar(s, i) == i = Len(s) + 1 \/ (i = Len(s) /\ s[i] = "\n")

is_valid_github_url(url) ==
    LET p0 == IF HasAt(url, 1, <<"h","t","t","p","s">>) THEN 6 ELSE 5
        p1 == p0 + Len(<<":","/","/","g","i","t","h","u","b",".","c","o","m","/">>)
        p2 == SkipName(url, p1)
        p3 == SkipName(url, p2 + 1)
        p4 == IF HasAt(url, p3, <<"/">>) THEN p3 + 1 ELSE p3
    IN  /\ HasAt(url, 1, <<"h","t","t","p">>)
        /\ HasAt(url, p0, <<":","/","/","g","i","t","h","u","b",".","c","o","m","/">>)
        /\ p2 > p1
        /\ HasAt(url, p2, <<"/">>)
        /\ p3 > p2 + 1
        /\ AtDollar(url, p4)

(***************************************************************************)
(* extract_repo_info and the checkout path of clone_repo                   *)
(***************************************************************************)
extract_repo_info(url) ==
    LET u == RemoveAll(RStrip(url, "/"), <<".","g","i","t">>)
        parts == Split(u, "/")
    IN  [owner |-> parts[Len(parts) - 1], repo |-> parts[Len(parts)]]

\* TEMP_DIR = os.path.join(os.path.dirname(__file__), '..', 'temp')
TEMP_DIR(installDir) == installDir \o <<"/",".",".","/","t","e","m","p">>

\* os.path.join(TEMP_DIR, f"{owner}_{repo}")
clone_path(installDir, url) ==
    LET info == extract_repo_info(url)
    IN  TEMP_DIR(installDir) \o <<"/">> \o info.owner \o <<"_">> \o info.repo

(***************************************************************************)
(* pathlib.Path accessors on str(filepath)                                 *)
(***************************************************************************)
\* Path.name
PathName(path) == SubSeq(path, RFind(path, "/") + 1, Len(path))

\* str(Path.parent)
PathParent(path) == SubSeq(path, 1, RFind(path, "/") - 1)

\* Path.stem: the name up to its last '.', unless that '.' leads or ends it
PathStem(path) ==
    LET name == PathName(path)
        i == RFind(name, ".")
    IN  IF 1 < i /\ i < Len(name) THEN SubSeq(name, 1, i - 1) ELSE name

AnyIn(words, s) == \E k \in 1..Len(words) : Contains(s, words[k])

(***************************************************************************)
(* _should_skip and _get_priority                                          *)
(***************************************************************************)
_should_skip(filepath) ==
    LET name == Lower(PathName(filepath))
        path_str == Lower(filepath)
    IN  \/ AnyIn(IGNORE_DIRS, path_str)
        \/ AnyIn(SKIP_PATTERNS, name) \/ AnyIn(SKIP_PATTERNS, path_str)

\* st_size of a file whose stat() raises
NoStat == -1

_get_priority(filepath, size) ==
    LET stem == Lower(PathStem(filepath))
        path_str == Lower(filepath)
    IN  (IF AnyIn(CRITICAL_KEYWORDS, stem) \/ AnyIn(CRITICAL_KEYWORDS, path_str)
         THEN 100 ELSE 0)
      + (IF AnyIn(IMPORTANT_KEYWORDS, stem) THEN 50 ELSE 0)
      + (IF AnyIn(PRIORITY_DIRS, path_str) THEN 25 ELSE 0)
      + (IF size # NoStat /\ size > 5000 THEN 10 ELSE 0)
      + (IF size # NoStat /\ size > 10000 THEN 10 ELSE 0)
      + (IF CountChar(PathParent(filepath), "/") <= 2 THEN 15 ELSE 0)
(***************************************************************************)
(* The checked-out file tree and Path.rglob                                *)
(*                                                                         *)
(* A tree is a sequence of files [segs, size]: segs the repo-relative path *)
(* as a sequence of segments, size the st_size (NoStat when stat raises).  *)
(* os.scandir lists a directory in an order the filesystem chooses; perm   *)
(* is that order, a permutation of entry positions, the same for every     *)
(* directory and every rglob call of one get_file_list run.                *)
(***************************************************************************)
IsPrefix(p, s) == Len(p) <= Len(s) /\ SubSeq(s, 1, Len(p)) = p

RECURSIVE Dedup(_)
Dedup(s) ==
    IF Len(s) = 0 THEN <<>>
    ELSE LET r == Dedup(SubSeq(s, 1, Len(s) - 1))
         IN  IF s[Len(s)] \in Range(r) THEN r ELSE Append(r, s[Len(s)])

\* names of the entries of directory dir, in the order the tree lists them
Children(tree, dir) ==
    LET inDir(f) == IsPrefix(dir, f.segs) /\ Len(f.segs) > Len(dir)
        under == SelectSeq(tree, inDir)
    IN  Dedup([i \in 1..Len(under) |-> under[i].segs[Len(dir) + 1]])

IsDirEntry(tree, dir, name) ==
    \E i \in 1..Len(tree) :
        IsPrefix(Append(dir, name), tree[i].segs) /\ Len(tree[i].segs) > Len(dir) + 1

\* os.scandir(dir): the entries in the order perm
scandir(tree, dir, perm) ==
    LET ch == Children(tree, dir)
        inRange(i) == i <= Len(ch)
        idx == SelectSeq(perm, inRange)
    IN  [k \in 1..Len(idx) |-> ch[idx[k]]]

\* fnmatch of a name against '*' + ext (case-sensitive, as on POSIX)
MatchesExt(name, ext) == HasAt(name, Len(name) - Len(ext) + 1, ext)

RECURSIVE ConcatAll(_)
ConcatAll(ss) == IF Len(ss) = 0 THEN <<>> ELSE ss[1] \o ConcatAll(Tail(ss))

\* the repo-relative paths repo.rglob('*' + ext) yields below dir: the
\* matching entries of dir, then the walk of each sub-directory, in scandir
\* order (trees hold no directory whose name carries a recognised suffix)
RECURSIVE rglob(_, _, _, _)
rglob(tree, dir, ext, perm) ==
    LET ents == scandir(tree, dir, perm)
        isMatch(n) == MatchesExt(n, ext)
        isDir(n) == IsDirEntry(tree, dir, n)
        here == SelectSeq(ents, isMatch)
        subs == SelectSeq(ents, isDir)
    IN  [k \in 1..Len(here) |-> Append(dir, here[k])]
        \o ConcatAll([k \in 1..Len(subs) |-> rglob(tree, Append(dir, subs[k]), ext, perm)])

SizeOf(tree, segs) == (CHOOSE i \in 1..Len(tree) : tree[i].segs = segs)

\* the Path objects rglob yields: str(filepath) and what stat() will report
Discovered(repo_path, tree, rels) ==
    [k \in 1..Len(rels) |->
        [path |-> repo_path \o <<"/">> \o Join(rels[k], <<"/">>),
         size |-> tree[SizeOf(tree, rels[k])].size]]

(***************************************************************************)
(* sorted(filtered, key=..., reverse=True): list.sort reverses the list,   *)
(* sorts it ascending and stable, and reverses it again                    *)
(***************************************************************************)
\* insert item x behind every item whose key is <= x.k
RECURSIVE InsertStable(_, _)
InsertStable(s, x) ==
    IF Len(s) = 0 THEN <<x>>
    ELSE IF s[1].k <= x.k THEN <<s[1]>> \o InsertStable(Tail(s), x)
    ELSE <<x>> \o s

RECURSIVE SortAscending(_)
SortAscending(s) ==
    IF Len(s) = 0 THEN <<>>
    ELSE InsertStable(SortAscending(SubSeq(s, 1, Len(s) - 1)), s[Len(s)])

\* a sort that forgets the first reversal: equal keys come out back to front
sorted_reverse_unstable(items) == Reverse(SortAscending(items))

sorted_reverse(items) == Reverse(SortAscending(Reverse(items)))

\* lst[:n]
SliceTo(lst, n) ==
    IF n >= 0 THEN SubSeq(lst, 1, Min(n, Len(lst)))
    ELSE SubSeq(lst, 1, IF Len(lst) + n > 0 THEN Len(lst) + n ELSE 0)

(***************************************************************************)
(* get_file_list                                                           *)
(***************************************************************************)
\* a filter that keeps every file
filter_files_all(all_files) == all_files

\* [f for f in all_files if not self._should_skip(f)]
filter_files(all_files) ==
    LET keep(f) == ~_should_skip(f.path)
    IN  SelectSeq(all_files, keep)

\* the locals of get_file_list at its return
sampling(repo_path, tree, perm, max_files) ==
    LET rels == ConcatAll([e \in 1..Len(EXTENSIONS) |-> rglob(tree, <<>>, EXTENSIONS[e], perm)])
        all_files == Discovered(repo_path, tree, rels)
        filtered == filter_files(all_files)
        keyed == [i \in 1..Len(filtered) |->
                     [f |-> filtered[i], k |-> _get_priority(filtered[i].path, filtered[i].size)]]
        sorted_files == sorted_reverse(keyed)
    IN  [ran       |-> TRUE,
         repo_path |-> repo_path,
         all_files |-> all_files,
         filtered  |-> filtered,
         keys      |-> [i \in 1..Len(keyed) |-> keyed[i].k],
         selected  |-> SliceTo([i \in 1..Len(sorted_files) |-> sorted_files[i].f], max_files),
         scores    |-> SliceTo([i \in 1..Len(sorted_files) |-> sorted_files[i].k], max_files)]

get_file_list(repo_path, tree, perm, max_files) ==
    sampling(repo_path, tree, perm, max_files).selected
(***************************************************************************)
(* Bounds and inputs                                                       *)
(***************************************************************************)
\* largest max_files passed to get_file_list
MaxFiles == 3
\* get_file_list calls in one behaviour
MaxRuns == 2

\* os.path.dirname(__file__) of github_utils.py: where the service is installed
InstallDirs == { <<"/","s","r","v","/","s","r","c">>, <<"/","o","p","t","/","b","u","i","l","d","/","s","r","c">> }

\* repository URLs the sampling runs are cloned from
SampleUrls == { <<"h","t","t","p","s",":","/","/","g","i","t","h","u","b",".","c","o","m","/","o","/","r">>,
                <<"h","t","t","p","s",":","/","/","g","i","t","h","u","b",".","c","o","m","/","u","s","e","r","/","r","e","p","o">>,
                <<"h","t","t","p","s",":","/","/","g","i","t","h","u","b",".","c","o","m","/","p","y","t","e","s","t","/","x">> }

\* auth/login.py (2 KB), utils/helper.py (12 KB), test_login.py, vendor/lib.js
ScenarioTree == <<
    [segs |-> <<<<"a","u","t","h">>, <<"l","o","g","i","n",".","p","y">>>>,   size |-> 2048],
    [segs |-> <<<<"u","t","i","l","s">>, <<"h","e","l","p","e","r",".","p","y">>>>, size |-> 12288],
    [segs |-> <<<<"t","e","s","t","_","l","o","g","i","n",".","p","y">>>>,       size |-> 300],
    [segs |-> <<<<"v","e","n","d","o","r">>, <<"l","i","b",".","j","s">>>>,   size |-> 300] >>

\* equal scores (a.py, b.py, d.py), a higher one found later (Core.js), a
\* skipped file
TieTree == <<
    [segs |-> <<<<"a",".","p","y">>>>,      size |-> 300],
    [segs |-> <<<<"b",".","p","y">>>>,      size |-> 300],
    [segs |-> <<<<"x">>, <<"d",".","p","y">>>>, size |-> NoStat],
    [segs |-> <<<<"x">>, <<"C","o","r","e",".","j","s">>>>, size |-> 6000],
    [segs |-> <<<<"x">>, <<"M","o","c","k","_","b",".","p","y">>>>, size |-> 300] >>

\* a repository with no file of a recognised suffix
NoCodeTree == << [segs |-> <<<<"R","E","A","D","M","E",".","m","d">>>>, size |-> 300] >>

EmptyTree == << >>

Trees == { ScenarioTree, TieTree, NoCodeTree, EmptyTree }

SeqMax(s) == IF Len(s) = 0 THEN 0 ELSE CHOOSE m \in Range(s) : \A x \in Range(s) : x <= m

\* the orders in which scandir may list the directories of a tree
ScanOrders(tree) ==
    LET width == SeqMax([i \in 1..Len(tree) |-> Len(Children(tree, SubSeq(tree[i].segs, 1, Len(tree[i].segs) - 1)))])
    IN  {p \in [1..width -> 1..width] : \A i, j \in 1..width : i # j => p[i] # p[j]}

\* the parts the validated urls are made of; an empty repo is a url that
\* stops behind the owner
UrlSchemes == { <<"h","t","t","p","s",":","/","/">>, <<"h","t","t","p",":","/","/">>, <<"f","t","p",":","/","/">>, <<>> }
UrlHosts == { <<"g","i","t","h","u","b",".","c","o","m">>, <<"g","i","t","l","a","b",".","c","o","m">>, <<"g","i","t","h","u","b","X","c","o","m">> }
UrlOwners == { <<"u","s","e","r">>, <<"u","s","e","r","-","n","a","m","e">>, <<"o",".","O">> }
UrlRepos == { <<>>, <<"r","e","p","o">>, <<"r","e","p","o","1","2","3">>, <<"r","e","p","o","-","n","a","m","e">> }
UrlTrails == { <<>>, <<"/">> }

UrlOf(u) ==
    u.scheme \o u.host \o <<"/">> \o u.owner
    \o (IF u.repo = <<>> THEN <<>> ELSE <<"/">> \o u.repo) \o u.trail

(***************************************************************************)
(* CodeAnalyzer: Python values are [type, d]; a dict carries its items in  *)
(* d, a function from keys                                                 *)
(***************************************************************************)
\* the default of max_files in get_file_list
DefaultMaxFiles == 50
\* analyze reads files[:30]
MaxRead == 30

PyDict(d) == [type |-> "dict", d |-> d]
PyOther(t) == [type |-> t, d |-> <<>>]

\* dict.get(key, default)
Get(d, key, default) == IF key \in DOMAIN d THEN d[key] ELSE default

\* what requests.post did: it raised (kind "connection_error", "timeout")
\* or returned a response (kind "http") with a status and a body; a body is
\* not JSON ("not_json"), JSON without choices[0].message.content
\* ("no_choices") or carries a content ("choices"); the content opens with
\* a ``` fence or not, has a line break behind the fence or not, and holds
\* the text json
Resp(kind, status, body, fenced, multiline, json) ==
    [kind |-> kind, status |-> status, body |-> body,
     fenced |-> fenced, multiline |-> multiline, json |-> json]

NoResponse == Resp("none", 0, "none", FALSE, FALSE, "none")

Content(fenced, multiline, json) == Resp("http", 200, "choices", fenced, multiline, json)

AiResponses == {
    Resp("connection_error", 0, "none", FALSE, FALSE, "none"),
    Resp("timeout", 0, "none", FALSE, FALSE, "none"),
    Resp("http", 503, "not_json", FALSE, FALSE, "none"),
    Resp("http", 200, "not_json", FALSE, FALSE, "none"),
    Resp("http", 200, "no_choices", FALSE, FALSE, "none"),
    Content(FALSE, FALSE, "prose"),
    Content(TRUE, FALSE, "object_full"),
    Content(TRUE, TRUE, "object_full"),
    Content(FALSE, FALSE, "object_full"),
    Content(FALSE, FALSE, "object_empty"),
    Content(FALSE, FALSE, "array"),
    Content(FALSE, TRUE, "null") }

\* json.loads(text): the value, or type "JSONDecodeError" when it raises
json_loads(json) ==
    CASE json = "object_full" ->
            PyDict([score |-> 80, critical |-> <<>>, warnings |-> <<>>,
                    improvements |-> <<>>, summary |-> "assessment"])
      [] json = "object_empty" -> PyDict(<<>>)
      [] json = "array" -> PyOther("list")
      [] json = "null" -> PyOther("NoneType")
      [] OTHER -> PyOther("JSONDecodeError")

\* the summaries stand for the f-strings of the handlers: "Analysis error"
\* for f"Analysis error: {str(e)}"
_ai_analyze(resp) ==
    IF resp.kind # "http"
    THEN PyDict([score |-> 50, summary |-> "Analysis error"])
    ELSE IF resp.status # 200
    THEN PyDict([score |-> 50, summary |-> "Analysis failed"])
    ELSE IF resp.body = "not_json"
    THEN PyDict([score |-> 50, summary |-> "Failed to parse analysis"])
    ELSE IF resp.body = "no_choices"
    THEN PyDict([score |-> 50, summary |-> "Analysis error"])
    ELSE IF resp.fenced /\ ~resp.multiline
    THEN PyDict([score |-> 50, summary |-> "Analysis error"])
    ELSE LET result == json_loads(resp.json)
         IN  IF result.type = "JSONDecodeError"
             THEN PyDict([score |-> 50, summary |-> "Failed to parse analysis"])
             ELSE result

\* analyze when get_file_list returned no file
no_files_report(repo_url) ==
    [error |-> "No code files found", score |-> 0, repo |-> repo_url]

\* the report analyze builds from the analysis; type "AttributeError" when
\* analysis.get raises because the analysis is no dict
build_report(repo_url, files, analysis) ==
    IF analysis.type # "dict" THEN PyOther("AttributeError")
    ELSE PyDict([repo |-> repo_url,
                 files_analyzed |-> Min(MaxRead, Len(files)),
                 score |-> Get(analysis.d, "score", 50),
                 critical |-> Get(analysis.d, "critical", <<>>),
                 warnings |-> Get(analysis.d, "warnings", <<>>),
                 improvements |-> Get(analysis.d, "improvements", <<>>),
                 summary |-> Get(analysis.d, "summary", "")])

(***************************************************************************)
(* Requests served by analyze_repo                                         *)
(***************************************************************************)
\* requests served concurrently
NumRequests == 2
Req == 1..NumRequests

ServerInstallDir == <<"/","s","r","v","/","s","r","c">>

UrlAbC == <<"h","t","t","p","s",":","/","/","g","i","t","h","u","b",".","c","o","m","/","a","_","b","/","c">>
UrlABc == <<"h","t","t","p","s",":","/","/","g","i","t","h","u","b",".","c","o","m","/","a","/","b","_","c">>
UrlDocs == <<"h","t","t","p","s",":","/","/","g","i","t","h","u","b",".","c","o","m","/","a","/","d","o","c","s">>
UrlPages == <<"h","t","t","p","s",":","/","/","g","i","t","h","u","b",".","c","o","m","/","a","/","x",".","g","i","t","h","u","b",".","i","o">>
UrlHub == <<"h","t","t","p","s",":","/","/","g","i","t","h","u","b",".","c","o","m","/","a","/","x","h","u","b",".","i","o">>
UrlGitlab == <<"h","t","t","p","s",":","/","/","g","i","t","l","a","b",".","c","o","m","/","a","/","b">>

\* the request bodies: no repo_url, or a repo_url in one spelling per
\* repository, so that two of them name the same repository only when equal
NoBody == [has_url |-> FALSE, url |-> <<>>]
Bodies == {NoBody} \cup {[has_url |-> TRUE, url |-> u] : u \in {UrlAbC, UrlABc, UrlDocs, UrlPages, UrlHub, UrlGitlab}}

AppTree == <<
    [segs |-> <<<<"a","p","p",".","p","y">>>>, size |-> 300],
    [segs |-> <<<<"d","b">>, <<"t","o","k","e","n",".","p","y">>>>, size |-> 7000] >>

\* the tree git clone checks out for a url
RepoTree(url) ==
    IF url \in {UrlAbC, UrlPages} THEN AppTree
    ELSE IF url = UrlABc THEN EmptyTree
    ELSE NoCodeTree

\* the checkout paths the requests can name
ServerPaths == {clone_path(ServerInstallDir, b.url) : b \in {x \in Bodies : x.has_url}}

(***************************************************************************)
(* State                                                                   *)
(***************************************************************************)
VARIABLES
    \* URL validation
    uin,        \* the parts the url under validation is made of
    upc,        \* "start" before is_valid_github_url is called, "done" after
    valid,      \* the result of is_valid_github_url
    \* smart sampling
    installDir, \* os.path.dirname(__file__)
    tree,       \* the file tree git clone checks out
    max_files,  \* the budget passed to get_file_list
    repo_path,  \* the path clone_repo returned; <<>> before the first clone
    cur,        \* the locals of the last get_file_list call
    prev,       \* the locals of the call before it
    runs,       \* get_file_list calls so far
    \* analyze_repo, per request
    body,       \* the JSON body of the request
    pc,         \* where the handler stands
    cpath,      \* repo_path of clone_repo; <<>> before it is computed
    cloned,     \* clone_repo returned cpath to the handler
    files,      \* what get_file_list returned to analyze
    outcome,    \* what requests.post did in _ai_analyze
    result,     \* the dict the handler answers with
    status,     \* the HTTP status of the answer, 0 before it
    cleaned,    \* github.cleanup(repo_path) was called
    fs          \* TEMP_DIR: the url checked out at each path, <<>> when none

uvars == <<uin, upc, valid>>
svars == <<installDir, tree, max_files, repo_path, cur, prev, runs>>
hvars == <<body, pc, cpath, cloned, files, outcome, result, status, cleaned, fs>>
vars == <<uin, upc, valid, installDir, tree, max_files, repo_path, cur, prev, runs,
          body, pc, cpath, cloned, files, outcome, result, status, cleaned, fs>>

NoRun == [ran |-> FALSE, repo_path |-> <<>>, all_files |-> <<>>, filtered |-> <<>>,
          keys |-> <<>>, selected |-> <<>>, scores |-> <<>>]

UIdle ==
    /\ uin = [scheme |-> <<>>, host |-> <<>>, owner |-> <<>>, repo |-> <<>>, trail |-> <<>>]
    /\ upc = "idle" /\ valid = FALSE
SIdle ==
    /\ installDir = <<>> /\ tree = <<>> /\ max_files = 0 /\ repo_path = <<>>
    /\ cur = NoRun /\ prev = NoRun /\ runs = 0

HFresh ==
    /\ cpath = [i \in Req |-> <<>>]
    /\ cloned = [i \in Req |-> FALSE]
    /\ files = [i \in Req |-> <<>>]
    /\ outcome = [i \in Req |-> NoResponse]
    /\ result = [i \in Req |-> <<>>]
    /\ status = [i \in Req |-> 0]
    /\ cleaned = [i \in Req |-> FALSE]
    /\ fs = [p \in ServerPaths |-> <<>>]

HIdle == body = [i \in Req |-> NoBody] /\ pc = [i \in Req |-> "off"] /\ HFresh

(***************************************************************************)
(* Smart sampling: clone_repo names the checkout, get_file_list samples it *)
(***************************************************************************)
SInit ==
    /\ UIdle /\ HIdle
    /\ installDir \in InstallDirs
    /\ tree \in Trees
    /\ max_files \in 0..MaxFiles
    /\ repo_path = <<>>
    /\ cur = NoRun /\ prev = NoRun /\ runs = 0

\* clone_repo(repo_url) for a url analyze_repo has validated, git succeeding
SCloneRepo ==
    \E url \in SampleUrls :
        /\ runs < MaxRuns
        /\ is_valid_github_url(url)
        /\ repo_path' = clone_path(installDir, url)
        /\ UNCHANGED <<uvars, hvars, installDir, tree, max_files, cur, prev, runs>>

\* get_file_list(repo_path, max_files) on the checkout
SGetFileList ==
    \E perm \in ScanOrders(tree) :
        /\ runs < MaxRuns
        /\ repo_path # <<>>
        /\ cur' = sampling(repo_path, tree, perm, max_files)
        /\ prev' = cur
        /\ runs' = runs + 1
        /\ UNCHANGED <<uvars, hvars, installDir, tree, max_files, repo_path>>

SNext == SCloneRepo \/ SGetFileList

SpecSample == SInit /\ [][SNext]_vars
(***************************************************************************)
(* URL validation: one call of is_valid_github_url                         *)
(***************************************************************************)
UInit ==
    /\ SIdle /\ HIdle
    /\ uin \in [scheme : UrlSchemes, host : UrlHosts, owner : UrlOwners,
                repo : UrlRepos, trail : UrlTrails]
    /\ upc = "start"
    /\ valid = FALSE

ValidateUrl ==
    /\ upc = "start"
    /\ valid' = is_valid_github_url(UrlOf(uin))
    /\ upc' = "done"
    /\ UNCHANGED <<uin, svars, hvars>>

UNext == ValidateUrl

SpecUrl == UInit /\ [][UNext]_vars

(***************************************************************************)
(* analyze_repo: Flask serves each request on a thread of its own; a       *)
(* handler is interleaved with the others at its filesystem, subprocess    *)
(* and network calls                                                       *)
(***************************************************************************)
HInit ==
    /\ UIdle /\ SIdle
    /\ body \in [Req -> Bodies]
    /\ pc = [i \in Req |-> "start"]
    /\ HFresh

\* the handler answers: jsonify(result), status
Answer(i, dict, code) ==
    /\ result' = [result EXCEPT ![i] = dict]
    /\ status' = [status EXCEPT ![i] = code]
    /\ pc' = [pc EXCEPT ![i] = "done"]

\* analyze_repo up to the rmtree of clone_repo: the body is read and the
\* url validated; clone_repo names the checkout and removes what is there
Receive(i) ==
    /\ pc[i] = "start"
    /\ IF ~body[i].has_url
       THEN /\ Answer(i, [error |-> "repo_url is required"], 400)
            /\ UNCHANGED <<cpath, fs>>
       ELSE IF ~is_valid_github_url(body[i].url)
       THEN /\ Answer(i, [error |-> "Invalid GitHub URL"], 400)
            /\ UNCHANGED <<cpath, fs>>
       ELSE LET p == clone_path(ServerInstallDir, body[i].url)
            IN  /\ cpath' = [cpath EXCEPT ![i] = p]
                /\ fs' = [fs EXCEPT ![p] = <<>>]
                /\ pc' = [pc EXCEPT ![i] = "git"]
                /\ UNCHANGED <<result, status>>
    /\ UNCHANGED <<uvars, svars, body, cloned, files, outcome, cleaned>>

\* clone_repo from subprocess.run on: git refuses a path that exists, and
\* fails or succeeds otherwise; None makes the handler answer 500
GitClone(i) ==
    /\ pc[i] = "git"
    /\ \E git_ok \in BOOLEAN :
        IF fs[cpath[i]] = <<>> /\ git_ok
        THEN /\ fs' = [fs EXCEPT ![cpath[i]] = body[i].url]
             /\ cloned' = [cloned EXCEPT ![i] = TRUE]
             /\ pc' = [pc EXCEPT ![i] = "analyze"]
             /\ UNCHANGED <<result, status>>
        ELSE /\ Answer(i, [error |-> "Failed to clone repository"], 500)
             /\ UNCHANGED <<fs, cloned>>
    /\ UNCHANGED <<uvars, svars, body, cpath, files, outcome, cleaned>>

\* analyze up to the call of _ai_analyze: get_file_list walks what is at
\* repo_path now (nothing when the directory is gone); with no file analyze
\* returns at once
Sample(i) ==
    /\ pc[i] = "analyze"
    /\ LET t == IF fs[cpath[i]] = <<>> THEN EmptyTree ELSE RepoTree(fs[cpath[i]])
       IN  \E perm \in ScanOrders(t) :
             LET fl == get_file_list(cpath[i], t, perm, DefaultMaxFiles)
             IN  /\ files' = [files EXCEPT ![i] = fl]
                 /\ IF fl = <<>>
                    THEN /\ result' = [result EXCEPT ![i] = no_files_report(body[i].url)]
                         /\ pc' = [pc EXCEPT ![i] = "cleanup"]
                    ELSE /\ pc' = [pc EXCEPT ![i] = "ai"]
                         /\ UNCHANGED result
    /\ UNCHANGED <<uvars, svars, body, cpath, cloned, outcome, status, cleaned, fs>>

\* _ai_analyze and the report: an exception of analyze reaches the except
\* clause of the handler, which answers 500
AiAnalyze(i) ==
    /\ pc[i] = "ai"
    /\ \E resp \in AiResponses :
        LET report == build_report(body[i].url, files[i], _ai_analyze(resp))
        IN  /\ outcome' = [outcome EXCEPT ![i] = resp]
            /\ IF report.type = "dict"
               THEN /\ result' = [result EXCEPT ![i] = report.d]
                    /\ pc' = [pc EXCEPT ![i] = "cleanup"]
                    /\ UNCHANGED status
               ELSE Answer(i, [error |-> report.type], 500)
    /\ UNCHANGED <<uvars, svars, body, cpath, cloned, files, cleaned, fs>>

\* github.cleanup(repo_path), then return jsonify(result)
Cleanup(i) ==
    /\ pc[i] = "cleanup"
    /\ fs' = [fs EXCEPT ![cpath[i]] = <<>>]
    /\ cleaned' = [cleaned EXCEPT ![i] = TRUE]
    /\ status' = [status EXCEPT ![i] = 200]
    /\ pc' = [pc EXCEPT ![i] = "done"]
    /\ UNCHANGED <<uvars, svars, body, cpath, cloned, files, outcome, result>>

HNext ==
    \E i \in Req :
        Receive(i) \/ GitClone(i) \/ Sample(i) \/ AiAnalyze(i) \/ Cleanup(i)

SpecServer == HInit /\ [][HNext]_vars

(***************************************************************************)
(* Claims on is_valid_github_url                                           *)
(***************************************************************************)
\* C7: is_valid_github_url returns true for every url of the form
\* https://github.com/<owner>/<repo>, and false for every url with another
\* host, with a scheme other than https (http://github.com/user/repo among
\* them), with no scheme, or with the repo segment missing.
C7_UrlValidation ==
    upc = "done" =>
        /\ (/\ uin.scheme = <<"h","t","t","p","s",":","/","/">> /\ uin.host = <<"g","i","t","h","u","b",".","c","o","m">>
            /\ uin.repo # <<>> /\ uin.trail = <<>>) => valid
        /\ (\/ uin.host # <<"g","i","t","h","u","b",".","c","o","m">>
            \/ uin.scheme # <<"h","t","t","p","s",":","/","/">>
            \/ uin.repo = <<>>) => ~valid
(***************************************************************************)
(* Claims on get_file_list                                                 *)
(***************************************************************************)
\* position of file f in the sequence lst
PosIn(lst, f) == CHOOSE i \in 1..Len(lst) : lst[i] = f

\* f.relative_to(repo_path), for the files of one run
RelPaths(run, lst) ==
    {SubSeq(lst[i].path, Len(run.repo_path) + 2, Len(lst[i].path)) : i \in 1..Len(lst)}

\* C1: a file get_file_list discovered and _should_skip rejects is not in
\* the returned list, whatever max_files is and whatever the file would
\* have scored.
C1_SkipIsAbsolute ==
    cur.ran =>
        \A i \in 1..Len(cur.all_files) :
            _should_skip(cur.all_files[i].path) => cur.all_files[i] \notin Range(cur.selected)

\* a run that discovered skipped files and returned others with budget left
C1_Witness ==
    /\ cur.ran
    /\ \E i \in 1..Len(cur.all_files) : _should_skip(cur.all_files[i].path)
    /\ Len(cur.selected) > 0
    /\ max_files > Len(cur.selected)

\* C2: get_file_list returns the first min(max_files, afterFilterCount)
\* files of the filtered list sorted by _get_priority descending, files of
\* equal score in discovery order; with fewer filtered files than max_files
\* it returns all of them, sorted.
C2_TopSortedStable ==
    cur.ran =>
        LET n == Len(cur.filtered)
            m == Min(max_files, n)
            sel == cur.selected
            pos(k) == PosIn(cur.filtered, sel[k])
            key(k) == cur.keys[pos(k)]
            before(k1, p1, k2, p2) == k1 > k2 \/ (k1 = k2 /\ p1 < p2)
        IN  /\ Len(sel) = m
            /\ \A k \in 1..m : sel[k] \in Range(cur.filtered)
            /\ \A i \in 1..n : cur.keys[i] = _get_priority(cur.filtered[i].path, cur.filtered[i].size)
            /\ \A k \in 1..m : cur.scores[k] = key(k)
            /\ \A k, l \in 1..m : k < l => before(key(k), pos(k), key(l), pos(l))
            /\ \A k \in 1..m : \A g \in 1..n :
                   cur.filtered[g] \notin Range(sel) => before(key(k), pos(k), cur.keys[g], g)

\* a run cut by the budget, with two returned files of equal score and a
\* file of another score found behind them
C2_Witness ==
    /\ cur.ran
    /\ 0 < max_files /\ max_files < Len(cur.filtered)
    /\ \E k, l \in 1..Len(cur.scores) : k # l /\ cur.scores[k] = cur.scores[l]
    /\ \E k \in 1..Len(cur.scores) : cur.scores[k] # cur.scores[1]
    /\ PosIn(cur.filtered, cur.selected[1]) > 1

\* C3: two consecutive runs of get_file_list on the same repo_path and the
\* same file tree return the same files in the same order with the same
\* scores; the discovery order is the same in both runs.
C3_Deterministic ==
    (cur.ran /\ prev.ran /\ cur.repo_path = prev.repo_path) =>
        /\ cur.all_files = prev.all_files
        /\ cur.selected = prev.selected
        /\ cur.scores = prev.scores

LoginPy == <<"/","a","u","t","h","/","l","o","g","i","n",".","p","y">>
HelperPy == <<"/","u","t","i","l","s","/","h","e","l","p","e","r",".","p","y">>

\* C8: in a checkout of the repository holding auth/login.py (2 KB) and
\* utils/helper.py (12 KB), for any valid owner and repo name,
\* _get_priority gives auth/login.py at least 100 and utils/helper.py 70,
\* and get_file_list places auth/login.py before utils/helper.py.
C8_Scenario ==
    (cur.ran /\ tree = ScenarioTree /\ max_files >= 2) =>
        /\ _get_priority(cur.repo_path \o LoginPy, 2048) >= 100
        /\ _get_priority(cur.repo_path \o HelperPy, 12288) = 70
        /\ \E i, j \in 1..Len(cur.selected) :
              /\ i < j
              /\ cur.selected[i].path = cur.repo_path \o LoginPy
              /\ cur.selected[j].path = cur.repo_path \o HelperPy

\* C10: for two checkouts of the same file tree under different
\* TEMP_DIR/<owner>_<repo> names, the repo-relative paths that survive
\* _should_skip are the same.
C10_SkipIgnoresCheckoutName ==
    (cur.ran /\ prev.ran) => RelPaths(cur, cur.filtered) = RelPaths(prev, prev.filtered)
(***************************************************************************)
(* Claims on analyze and analyze_repo                                      *)
(***************************************************************************)
\* the responses of a backend that is unreachable, times out, answers with
\* a non-200 status or returns malformed output
FailedResponses ==
    {r \in AiResponses :
        \/ r.kind # "http"
        \/ r.status # 200
        \/ r.body # "choices"
        \/ (r.fenced /\ ~r.multiline)
        \/ r.json \in {"prose", "array", "null"}}

Placeholders == {"Analysis failed", "Failed to parse analysis", "Analysis error"}

\* C4: when the reasoning backend is unreachable, times out, answers with a
\* non-200 status or returns malformed output, analyze still returns a
\* report with a placeholder summary and the request does not end in an
\* exception or a 5xx answer.
C4_BackendFailureDegrades ==
    \A i \in Req :
        (pc[i] = "done" /\ outcome[i] \in FailedResponses) =>
            /\ status[i] = 200
            /\ "summary" \in DOMAIN result[i]
            /\ result[i].summary \in Placeholders

\* C5: when the cloned repository holds no file get_file_list returns,
\* analyze returns a report with zero files analyzed that carries no error
\* field.
C5_EmptyRepoIsNoError ==
    \A i \in Req :
        (pc[i] = "cleanup" /\ cloned[i] /\ files[i] = <<>>) =>
            /\ "error" \notin DOMAIN result[i]
            /\ "files_analyzed" \in DOMAIN result[i]
            /\ result[i].files_analyzed = 0

\* C6: two concurrent requests whose valid urls name different
\* repositories get different checkout directories, and the tree a request
\* is about to sample is the one it cloned: the other request has neither
\* removed nor replaced it.
C6_IndependentCheckouts ==
    \A i, j \in Req :
        (i # j /\ body[i].has_url /\ body[j].has_url /\ body[i].url # body[j].url) =>
            /\ (cpath[i] # <<>> /\ cpath[j] # <<>>) => cpath[i] # cpath[j]
            /\ pc[i] = "analyze" => fs[cpath[i]] = body[i].url

\* C9: a request for which clone_repo returned a checkout path has called
\* cleanup on it by the time its response is returned, on every path
\* through the handler.
C9_CleanupBeforeResponse ==
    \A i \in Req : (pc[i] = "done" /\ cloned[i]) => cleaned[i]
====
